---- MODULE Spec2Model ----
(***************************************************************************)
(* A model of brick (src/brick.go): the template cache                     *)
(* (Brick.GetCachedTemplate and its readers), template execution with the  *)
(* include directive, the request wrapper built by Brick.Service, the      *)
(* handler built by Brick.TemplatePage, the static route (StaticPage,      *)
(* WrapErrorHandler, WrapErrorResponse) and Http.URLParam.  Each part has  *)
(* its own specification over the same variables; the variables of the     *)
(* other parts stay at their initial value.                                *)
(***************************************************************************)
EXTENDS Integers, Sequences, FiniteSets, TLC

\* ------------------------------------------------------------------ bounds
\* File modifications made by the environment.
MaxWrites == 1
\* Modification times are drawn from 1..MaxTime (a file's time may return to
\* an earlier value).
MaxTime == 2
\* Template objects allocated by template.New.
MaxTpl == 2
\* Shutdowns a handler registers with CloseOnEnd in one request.
MaxClosers == 2
\* Requests served one after the other through one Service route.
MaxReqs == 2
\* Calls (WriteHeader, Write) a handler wrapped by WrapErrorHandler makes.
MaxOps == 3
\* Nested include calls of one template execution.
MaxDepth == 1
\* Characters of a request path, and out parameters given to URLParam.
MaxPathLen == 4
MaxOuts == 2

\* ------------------------------------------------------- template cache
Paths == {"a.html"}
Tasks == {"r1", "r2"}
NoTask == "none"

\* The zero time.Time of a fresh CachedTemplate{} and its nil *template.Template.
ZeroTime == 0
NilTpl == 0

VARIABLES
  fileIno,         \* path -> the inode the path names now
  inodes,          \* the inodes: [mtime, ver, good]; an open *os.File names one
  writes,          \* file modifications so far
  cachedTemplate,  \* Brick.cachedTemplate: path -> CachedTemplate (present = non-nil)
  tplLock,         \* Brick.tplLock: the task holding it, or NoTask
  tplMeta,         \* the template objects: [time, ver, state]
  task,            \* each request task: its position in GetTpl/GetCachedTemplate
  lastOk,          \* path -> the last successful return: [has, tpl, time, valid]
  lastDone,        \* path -> the last call that left the lock: [has, status, valid]
  incDepth         \* task -> the include calls its template execution is inside

tplVars == <<fileIno, inodes, writes, cachedTemplate, tplLock, tplMeta, task,
             lastOk, lastDone>>

NilEntry == [present |-> FALSE, lastTime |-> ZeroTime, fileName |-> "",
             template |-> NilTpl]
\* &CachedTemplate{}
NewEntry == [present |-> TRUE, lastTime |-> ZeroTime, fileName |-> "",
             template |-> NilTpl]

NoRet == [has |-> FALSE, tpl |-> NilTpl, time |-> ZeroTime, valid |-> FALSE]
NoDone == [has |-> FALSE, status |-> "none", valid |-> FALSE]
NoRes == [status |-> "none", attempted |-> FALSE, c1pre |-> FALSE,
          c2pre |-> FALSE, c10pre |-> FALSE]

IdleTask == [pc |-> "idle", path |-> "", modtime |-> ZeroTime, file |-> 0,
             base |-> NoRet, okSince |-> FALSE,
             doneSince |-> FALSE, dirty |-> FALSE, res |-> NoRes,
             obsTime |-> ZeroTime, obsTpl |-> NilTpl]

\* A task between its stat and its return from GetCachedTemplate.
InCall(u) == task[u].pc \in {"lock", "check", "parse"}

TplInit ==
  /\ fileIno = [p \in Paths |-> 1]
  /\ \E g \in BOOLEAN : inodes = <<[mtime |-> 1, ver |-> 1, good |-> g]>>
  /\ writes = 0
  /\ cachedTemplate = [p \in Paths |-> NilEntry]
  /\ tplLock = NoTask
  /\ tplMeta = <<>>
  /\ task = [t \in Tasks |-> IdleTask]
  /\ lastOk = [p \in Paths |-> NoRet]
  /\ lastDone = [p \in Paths |-> NoDone]
  /\ incDepth = [t \in Tasks |-> 0]

\* ---- the environment: the template file is modified
Touched(p) ==
  /\ task' = [u \in Tasks |->
       IF InCall(u) /\ task[u].path = p
       THEN [task[u] EXCEPT !.dirty = TRUE] ELSE task[u]]
  /\ lastOk' = [lastOk EXCEPT ![p].valid = FALSE]
  /\ lastDone' = [lastDone EXCEPT ![p].valid = FALSE]

\* The file is rewritten in place: open files see the new content.
WriteInPlace(p, m, g) ==
  /\ writes < MaxWrites
  /\ m # inodes[fileIno[p]].mtime
  /\ writes' = writes + 1
  /\ inodes' = [inodes EXCEPT ![fileIno[p]] =
                  [mtime |-> m, ver |-> writes + 2, good |-> g]]
  /\ Touched(p)
  /\ UNCHANGED <<fileIno, cachedTemplate, tplLock, tplMeta>>

\* The file is replaced by a new one (write and rename): open files keep the
\* old content.
ReplaceFile(p, m, g) ==
  /\ writes < MaxWrites
  /\ m # inodes[fileIno[p]].mtime
  /\ writes' = writes + 1
  /\ inodes' = Append(inodes, [mtime |-> m, ver |-> writes + 2, good |-> g])
  /\ fileIno' = [fileIno EXCEPT ![p] = Len(inodes) + 1]
  /\ Touched(p)
  /\ UNCHANGED <<cachedTemplate, tplLock, tplMeta>>

\* ---- lastModifyTime: open the file and stat it (before the lock is taken)
lastModifyTime(p) == [modtime |-> inodes[fileIno[p]].mtime, file |-> fileIno[p]]

\* GetCachedTemplate, lines 336-340: the open fails, or the task holds an open
\* file and the time its stat gave.
OpenStat(t, p) ==
  /\ task[t].pc = "idle"
  /\ \E opened \in BOOLEAN :
       task' = [task EXCEPT ![t] =
         IF opened
         THEN [IdleTask EXCEPT !.pc = "lock", !.path = p,
                 !.modtime = lastModifyTime(p).modtime,
                 !.file = lastModifyTime(p).file,
                 !.base = lastOk[p]]
         ELSE [IdleTask EXCEPT !.pc = "done", !.path = p,
                 !.res = [NoRes EXCEPT !.status = "open"]]]
  /\ UNCHANGED <<fileIno, inodes, writes, cachedTemplate, tplLock, tplMeta,
                 lastOk, lastDone>>

\* b.tplLock.Lock()
Lock(t) ==
  /\ task[t].pc = "lock"
  /\ tplLock = NoTask
  /\ tplLock' = t
  /\ task' = [task EXCEPT ![t].pc = "check"]
  /\ UNCHANGED <<fileIno, inodes, writes, cachedTemplate, tplMeta, lastOk,
                 lastDone>>

\* cd := b.cachedTemplate[fileName]; if cd == nil { cd = &CachedTemplate{}; ... }
Lookup(cache, p) ==
  IF cache[p].present THEN cache ELSE [cache EXCEPT ![p] = NewEntry]

\* !modtime.Equal(cd.lastTime)
IsStale(modtime, cd) == modtime # cd.lastTime

\* cd.template = template.New(fileName).Funcs(b.funcMap)
AssignTemplate(cd, tpl) == [cd EXCEPT !.template = tpl]

\* cd.lastTime = *modtime; cd.fileName = fileName
StoreParsed_KeepsTime(cd, modtime, fileName) ==
  [cd EXCEPT !.fileName = fileName]

StoreParsed(cd, modtime, fileName) ==
  [cd EXCEPT !.lastTime = modtime, !.fileName = fileName]

\* if _, errP := cd.template.Parse(...); errP != nil { return nil, errP }: the
\* entry keeps the time it had (and the template assigned before Parse).
ParseFailed_StoresTime(cd, modtime) == [cd EXCEPT !.lastTime = modtime]

ParseFailed(cd, modtime) == cd

\* The situations of a call that is about to return, for the properties below.
\* The file has not changed since the last successful call, which returned
\* before this call started:
UnchangedSinceOk(t) ==
  /\ lastOk[task[t].path].has /\ lastOk[task[t].path].valid
  /\ ~task[t].okSince

\* This call observed another modification time than the one the last
\* successful call before it stored:
ChangedSinceOk(t) == task[t].base.has /\ task[t].base.time # task[t].modtime

\* The last call to leave the lock before this one started failed to parse the
\* file, and the file has not changed since:
UnchangedSinceParseError(t) ==
  /\ lastDone[task[t].path].has /\ lastDone[task[t].path].valid
  /\ lastDone[task[t].path].status = "parse"
  /\ ~task[t].doneSince

\* defer b.tplLock.Unlock() kept past the return: the caller goes on holding
\* the lock.
Unlock_AfterRequest(holder) == holder

\* defer b.tplLock.Unlock(): the lock is free when GetCachedTemplate returns.
Unlock(holder) == NoTask

\* The return of GetCachedTemplate from under the lock (the deferred Unlock
\* runs), with the cache as the call leaves it. The record res keeps how the
\* call ended and which of the situations above it was in.
Return(t, st, att, cache2) ==
  LET p == task[t].path
      r == [status |-> st,
            attempted |-> att,
            c1pre |-> UnchangedSinceOk(t),
            c2pre |-> ChangedSinceOk(t),
            c10pre |-> UnchangedSinceParseError(t)]
  IN
  /\ cachedTemplate' = cache2
  /\ tplLock' = Unlock(t)
  /\ lastOk' = IF st = "ok"
               THEN [lastOk EXCEPT ![p] =
                       [has |-> TRUE, tpl |-> cache2[p].template,
                        time |-> cache2[p].lastTime,
                        valid |-> ~task[t].dirty]]
               ELSE lastOk
  /\ lastDone' = [lastDone EXCEPT ![p] =
                    [has |-> TRUE, status |-> st, valid |-> ~task[t].dirty]]
  /\ task' = [u \in Tasks |->
       IF u = t
       THEN [IdleTask EXCEPT !.pc = IF st = "ok" THEN "ret" ELSE "done",
                             !.path = p, !.res = r]
       ELSE IF InCall(u) /\ task[u].path = p
       THEN [task[u] EXCEPT !.doneSince = TRUE,
                            !.okSince = @ \/ st = "ok"]
       ELSE task[u]]

\* GetCachedTemplate, lines 344-357, under the lock: the entry is looked up (or
\* inserted empty); a fresh entry is returned as it is; for a stale one the file
\* is read and a new template object is assigned to cd.template.
Check(t) ==
  /\ task[t].pc = "check"
  /\ LET p == task[t].path
         cache1 == Lookup(cachedTemplate, p)
     IN
     IF ~IsStale(task[t].modtime, cache1[p])
     THEN /\ Return(t, "ok", FALSE, cache1)
          /\ UNCHANGED tplMeta
     ELSE \E readOk \in BOOLEAN :
            IF ~readOk
            THEN /\ Return(t, "read", TRUE, cache1)
                 /\ UNCHANGED tplMeta
            ELSE /\ Len(tplMeta) < MaxTpl
                 /\ tplMeta' = Append(tplMeta,
                      [time |-> task[t].modtime,
                       ver |-> inodes[task[t].file].ver,
                       good |-> inodes[task[t].file].good,
                       state |-> "new"])
                 /\ cachedTemplate' = [cache1 EXCEPT ![p] =
                      AssignTemplate(@, Len(tplMeta) + 1)]
                 /\ task' = [task EXCEPT ![t].pc = "parse"]
                 /\ UNCHANGED <<tplLock, lastOk, lastDone>>
  /\ UNCHANGED <<fileIno, inodes, writes>>

\* GetCachedTemplate, lines 358-364: Parse; on an error the call returns it, else
\* the time and the name are stored and the entry is returned.
Parse(t) ==
  /\ task[t].pc = "parse"
  /\ LET p == task[t].path
         n == cachedTemplate[p].template
     IN
     IF tplMeta[n].good
     THEN /\ tplMeta' = [tplMeta EXCEPT ![n].state = "ok"]
          /\ Return(t, "ok", TRUE,
               [cachedTemplate EXCEPT ![p] = StoreParsed(@, task[t].modtime, p)])
     ELSE /\ tplMeta' = [tplMeta EXCEPT ![n].state = "failed"]
          /\ Return(t, "parse", TRUE,
               [cachedTemplate EXCEPT ![p] = ParseFailed(@, task[t].modtime)])
  /\ UNCHANGED <<fileIno, inodes, writes>>

\* Http.GetTpl, line 741: tpl.lastTime is read without the lock.
ReadLastTime(t) ==
  /\ task[t].pc = "ret"
  /\ task' = [task EXCEPT ![t].pc = "rdtpl",
                          ![t].obsTime = cachedTemplate[task[t].path].lastTime]
  /\ UNCHANGED <<fileIno, inodes, writes, cachedTemplate, tplLock, tplMeta,
                 lastOk, lastDone>>

\* Http.GetTpl, line 743: tpl.template is read without the lock.
ReadTemplate(t) ==
  /\ task[t].pc = "rdtpl"
  /\ task' = [task EXCEPT ![t].pc = "done",
                          ![t].obsTpl = cachedTemplate[task[t].path].template]
  /\ UNCHANGED <<fileIno, inodes, writes, cachedTemplate, tplLock, tplMeta,
                 lastOk, lastDone>>

\* The request ends; the task serves the next one.
EndRequest(t) ==
  /\ task[t].pc = "done"
  /\ task' = [task EXCEPT ![t] = IdleTask]
  /\ UNCHANGED <<fileIno, inodes, writes, cachedTemplate, tplLock, tplMeta,
                 lastOk, lastDone>>

\* ---- template execution and the include directive (defaultTemplateFunc)
\* ct.template.Execute(...) begins (TemplatePage line 398, include line 225):
\* the task holds the entry GetCachedTemplate returned and runs the template.
Execute(t) ==
  /\ task[t].pc = "ret"
  /\ task' = [task EXCEPT ![t].pc = "exec"]
  /\ UNCHANGED <<fileIno, inodes, writes, cachedTemplate, tplLock, tplMeta,
                 lastOk, lastDone, incDepth>>

\* The running template reaches {{include .}}: the directive calls
\* b.GetCachedTemplate(fn) (lines 219-220), which opens and stats the file.
Include(t, p) ==
  /\ task[t].pc = "exec"
  /\ incDepth[t] < MaxDepth
  /\ incDepth' = [incDepth EXCEPT ![t] = @ + 1]
  /\ \E opened \in BOOLEAN :
       task' = [task EXCEPT ![t] =
         IF opened
         THEN [IdleTask EXCEPT !.pc = "lock", !.path = p,
                 !.modtime = lastModifyTime(p).modtime,
                 !.file = lastModifyTime(p).file,
                 !.base = lastOk[p]]
         ELSE [IdleTask EXCEPT !.pc = "done", !.path = p,
                 !.res = [NoRes EXCEPT !.status = "open"]]]
  /\ UNCHANGED <<fileIno, inodes, writes, cachedTemplate, tplLock, tplMeta,
                 lastOk, lastDone>>

\* Execute returns nil: an included template gives control back to the
\* template that included it (line 228); the outermost one ends the rendering.
ExecuteReturn(t) ==
  /\ task[t].pc = "exec"
  /\ IF incDepth[t] > 0
     THEN /\ incDepth' = [incDepth EXCEPT ![t] = @ - 1]
          /\ UNCHANGED task
     ELSE /\ task' = [task EXCEPT ![t].pc = "done"]
          /\ UNCHANGED incDepth
  /\ UNCHANGED <<fileIno, inodes, writes, cachedTemplate, tplLock, tplMeta,
                 lastOk, lastDone>>

\* include returns the error of its GetCachedTemplate call (lines 221-223):
\* every enclosing Execute returns it in turn (lines 225-227).
IncludeFailed(t) ==
  /\ task[t].pc = "done"
  /\ incDepth[t] > 0
  /\ incDepth' = [incDepth EXCEPT ![t] = 0]
  /\ UNCHANGED <<fileIno, inodes, writes, cachedTemplate, tplLock, tplMeta,
                 task, lastOk, lastDone>>

\* The rendering request is over (no include is pending).
EndRendering(t) ==
  /\ incDepth[t] = 0
  /\ EndRequest(t)
  /\ UNCHANGED incDepth

\* ------------------------------------------------------ the response sink
\* The http.ResponseWriter of a request, as the client receives it: the first
\* status written stands (a Write before any WriteHeader sends 200; a later
\* WriteHeader changes nothing), bytes are appended, headers are name-value
\* pairs. The configured error handler (Config.ErrorHandle) is shared by the
\* Service wrapper and the static route.
VARIABLES
  sink,            \* [status, body, hdr]
  errorHandle      \* Brick.errorHandle: "default" (defaultErrorHandle) or "custom"

NewSink == [status |-> 0, body |-> <<>>, hdr |-> {}]

HeaderAdd(w, k, v) == [w EXCEPT !.hdr = @ \cup {<<k, v>>}]

HeaderSet(w, k, v) == [w EXCEPT !.hdr = {h \in @ : h[1] # k} \cup {<<k, v>>}]

SinkWriteHeader(w, code) == IF w.status = 0 THEN [w EXCEPT !.status = code] ELSE w

SinkWrite(w, b) == [SinkWriteHeader(w, 200) EXCEPT !.body = @ \o b]

\* defaultErrorHandle: WriteHeader(500), the fixed fragment, the error's text.
defaultErrorHandle(w, msg) ==
  SinkWrite(SinkWrite(SinkWriteHeader(w, 500), <<"<p>Service Error</p>">>),
            <<"<p>">> \o msg \o <<"</p>">>)

\* A handler given as Config.ErrorHandle: here one that answers with the code
\* of an HttpError (500 for any other error) and no body.
customErrorHandle(w, code) == SinkWriteHeader(w, code)

\* b.errorHandle(&hd, err) on the sink, for an error with this code and text.
CallErrorHandle(w, code, msg) ==
  IF errorHandle = "default" THEN defaultErrorHandle(w, msg)
  ELSE customErrorHandle(w, code)

\* Whether the configured error handler can itself panic: defaultErrorHandle
\* does not, a handler supplied by the application may.
EhMayPanic == IF errorHandle = "default" THEN {FALSE} ELSE BOOLEAN

\* ------------------------------------------------- Brick.Service wrapper
Closers == {"c1", "c2"}
\* The ways a handler panics: its own panic, or a parameter accessor
\* (GetI, GetF, URLParam).
HPanics == {"user", "param"}

VARIABLES
  spc,        \* the wrapper's position: idle, handler, eh, shutdown, recover, done
  hc,         \* Http.c: the Shutdowns registered by CloseOnEnd, in order
  ci,         \* Http.shutdown: index of the next Shutdown to close
  closed,     \* the Shutdowns whose Close was called, in call order
  ehLog,      \* the values b.errorHandle was called with in this request
  hres,       \* how the handler ended: none, nil, err, or a member of HPanics
  panicking,  \* the panic unwinding the wrapper's frame, or none
  escaped,    \* the panic that left the wrapper, or none
  reqs,       \* requests completed
  prevPanic   \* the handler of an earlier request panicked

svcVars == <<spc, hc, ci, closed, ehLog, hres, panicking, escaped, reqs,
             prevPanic>>

SvcInit ==
  /\ spc = "idle" /\ hc = <<>> /\ ci = 1 /\ closed = <<>> /\ ehLog = <<>>
  /\ hres = "none" /\ panicking = "none" /\ escaped = "none"
  /\ reqs = 0 /\ prevPanic = FALSE

\* Service, lines 286-302: a request arrives; hd is built with an empty list
\* of Shutdowns, the deferred function is installed, Cache-Control is added.
SvcBegin ==
  /\ spc = "idle"
  /\ reqs < MaxReqs
  /\ spc' = "handler"
  /\ hc' = <<>> /\ ci' = 1 /\ closed' = <<>> /\ ehLog' = <<>>
  /\ hres' = "none" /\ panicking' = "none" /\ escaped' = "none"
  /\ sink' = HeaderAdd(NewSink, "Cache-Control", "no-store")
  /\ UNCHANGED <<reqs, prevPanic, errorHandle>>

\* Http.CloseOnEnd, called by the handler.
CloseOnEnd(c) ==
  /\ spc = "handler"
  /\ Len(hc) < MaxClosers
  /\ hc' = Append(hc, c)
  /\ UNCHANGED <<spc, ci, closed, ehLog, hres, panicking, escaped, reqs,
                 prevPanic, sink, errorHandle>>

\* The handler writes to the response (Http.WriteStr).
HandlerWrite ==
  /\ spc = "handler"
  /\ sink.body = <<>>
  /\ sink' = SinkWrite(sink, <<"out">>)
  /\ UNCHANGED <<svcVars, errorHandle>>

\* Service, line 303: h(&hd) returns nil or an error.
HandlerReturn(e) ==
  /\ spc = "handler"
  /\ hres' = e
  /\ spc' = IF e = "err" THEN "eh" ELSE "shutdown"
  /\ UNCHANGED <<hc, ci, closed, ehLog, panicking, escaped, reqs, prevPanic,
                 sink, errorHandle>>

\* The handler panics (panic(...), or log.Panicln in GetI/GetF, or URLParam).
HandlerPanic(v) ==
  /\ spc = "handler"
  /\ hres' = v
  /\ panicking' = v
  /\ spc' = "recover"
  /\ UNCHANGED <<hc, ci, closed, ehLog, escaped, reqs, prevPanic, sink,
                 errorHandle>>

\* Service, line 304: b.errorHandle(&hd, err) for the returned error.
ErrorReturned ==
  /\ spc = "eh"
  /\ ehLog' = Append(ehLog, "err")
  /\ sink' = CallErrorHandle(sink, 500, <<"err">>)
  /\ \E p \in EhMayPanic :
       IF p THEN panicking' = "eh" /\ spc' = "recover"
       ELSE panicking' = panicking /\ spc' = "shutdown"
  /\ UNCHANGED <<hc, ci, closed, hres, escaped, reqs, prevPanic, errorHandle>>

\* Http.shutdown, lines 668-672: Close of the next registered Shutdown (which
\* may panic); after the last one the wrapper's function ends.
ShutdownStep ==
  /\ spc = "shutdown"
  /\ IF ci <= Len(hc)
     THEN /\ closed' = Append(closed, hc[ci])
          /\ \E p \in BOOLEAN :
               IF p THEN panicking' = "close" /\ spc' = "recover" /\ ci' = ci
               ELSE panicking' = panicking /\ spc' = spc /\ ci' = ci + 1
     ELSE /\ spc' = "recover"
          /\ UNCHANGED <<closed, panicking, ci>>
  /\ UNCHANGED <<hc, ehLog, hres, escaped, reqs, prevPanic, sink, errorHandle>>

\* A deferred function without recover(): the panic leaves the wrapper.
DeferredNoRecover ==
  /\ spc = "recover"
  /\ escaped' = panicking
  /\ panicking' = "none"
  /\ spc' = "done"
  /\ reqs' = reqs + 1
  /\ UNCHANGED <<hc, ci, closed, ehLog, hres, prevPanic, sink, errorHandle>>

\* Service, lines 290-300: the deferred function; recover() returns the panic
\* in flight, if any, and b.errorHandle is called with it. A panic of the error
\* handler itself leaves the wrapper.
DeferredRecover ==
  /\ spc = "recover"
  /\ IF panicking # "none"
     THEN /\ ehLog' = Append(ehLog, panicking)
          /\ sink' = CallErrorHandle(sink, 500, <<panicking>>)
          /\ \E p \in EhMayPanic : escaped' = IF p THEN "eh" ELSE "none"
     ELSE UNCHANGED <<ehLog, sink, escaped>>
  /\ panicking' = "none"
  /\ spc' = "done"
  /\ reqs' = reqs + 1
  /\ UNCHANGED <<hc, ci, closed, hres, prevPanic, errorHandle>>

\* The request is over; the server takes the next one.
SvcEnd ==
  /\ spc = "done"
  /\ spc' = "idle"
  /\ prevPanic' = (prevPanic \/ hres \in HPanics)
  /\ UNCHANGED <<hc, ci, closed, ehLog, hres, panicking, escaped, reqs, sink,
                 errorHandle>>

\* ------------------------------------- Brick.TemplatePage as a Service handler
\* The handler TemplatePage returns, run by the Service wrapper for one request
\* at a time; its GetCachedTemplate call is the call of task PageTask.
PageTask == "r1"
TemplateFile == "a.html"
Methods == {"GET", "HEAD"}
\* The values a data callback (TemplateHandler) returns.
Datas == {"d1", "d2"}

VARIABLES
  ppc,        \* position in the handler: none, hdr, get, wait, handle, method,
              \* return, end
  method,     \* hd.R.Method
  cbRes,      \* what handle(hd) did: [kind, data]; kind is none, ok, err, panic
  pret,       \* what the handler returns: none, nil, tpl (err of
              \* GetCachedTemplate), cb (errTC), exec (err of Execute)
  execLog     \* the calls of ct.template.Execute: [tpl, data]

pageVars == <<ppc, method, cbRes, pret, execLog>>

NoCb == [kind |-> "none", data |-> "none"]

PageRest ==
  /\ ppc = "none" /\ method = "GET" /\ cbRes = NoCb /\ pret = "none"
  /\ execLog = <<>>

\* A HEAD test that never holds: every request is rendered.
IsHead_Never(m) == FALSE

\* hd.R.Method == "HEAD"
IsHead(m) == m = "HEAD"

\* The Service wrapper takes a request and calls the handler.
PageBegin(m) ==
  /\ SvcBegin
  /\ task[PageTask].pc = "idle"
  /\ method' = m
  /\ ppc' = "hdr"
  /\ cbRes' = NoCb /\ pret' = "none" /\ execLog' = <<>>
  /\ UNCHANGED tplVars

\* TemplatePage, lines 378-380: the Cache-Control and Content-Type headers.
PageHeaders ==
  /\ spc = "handler" /\ ppc = "hdr"
  /\ sink' = HeaderSet(HeaderAdd(HeaderAdd(sink,
                 "Cache-Control", "private"),
                 "Cache-Control", "max-age"),
                 "Content-Type", "text/html; charset=utf-8")
  /\ ppc' = "get"
  /\ UNCHANGED <<svcVars, errorHandle, tplVars, method, cbRes, pret, execLog>>

\* TemplatePage, line 381: b.GetCachedTemplate(templateFile) is called.
PageGetTemplate ==
  /\ spc = "handler" /\ ppc = "get"
  /\ OpenStat(PageTask, TemplateFile)
  /\ ppc' = "wait"
  /\ UNCHANGED <<svcVars, sink, errorHandle, method, cbRes, pret, execLog>>

\* TemplatePage, lines 382-385: GetCachedTemplate returned an error; the
\* handler writes a line to the response and returns the error.
PageTemplateError ==
  /\ spc = "handler" /\ ppc = "wait"
  /\ task[PageTask].pc = "done"
  /\ sink' = SinkWrite(sink, <<"Parse Template Error<br/>">>)
  /\ pret' = "tpl"
  /\ ppc' = "return"
  /\ task' = [task EXCEPT ![PageTask] = IdleTask]
  /\ UNCHANGED <<svcVars, errorHandle, fileIno, inodes, writes, cachedTemplate,
                 tplLock, tplMeta, lastOk, lastDone, method, cbRes, execLog>>

\* TemplatePage, lines 387-390: handle(hd) returns data, or an error, which the
\* handler returns.
PageHandle(kind, d) ==
  /\ spc = "handler" /\ ppc = "wait"
  /\ task[PageTask].pc = "ret"
  /\ cbRes' = [kind |-> kind, data |-> IF kind = "ok" THEN d ELSE "none"]
  /\ IF kind = "ok"
     THEN ppc' = "method" /\ pret' = pret
     ELSE ppc' = "return" /\ pret' = "cb"
  /\ task' = [task EXCEPT ![PageTask] = IdleTask]
  /\ UNCHANGED <<svcVars, sink, errorHandle, fileIno, inodes, writes,
                 cachedTemplate, tplLock, tplMeta, lastOk, lastDone, method,
                 execLog>>

\* TemplatePage, line 387: handle(hd) panics (a panic of its own, or of a
\* parameter accessor it calls).
PageHandlePanics(v) ==
  /\ ppc = "wait"
  /\ task[PageTask].pc = "ret"
  /\ HandlerPanic(v)
  /\ cbRes' = [kind |-> "panic", data |-> "none"]
  /\ ppc' = "end"
  /\ task' = [task EXCEPT ![PageTask] = IdleTask]
  /\ UNCHANGED <<fileIno, inodes, writes, cachedTemplate, tplLock, tplMeta,
                 lastOk, lastDone, method, pret, execLog>>

\* TemplatePage, lines 391-394: a HEAD request is answered with 204.
PageHead ==
  /\ spc = "handler" /\ ppc = "method"
  /\ IsHead(method)
  /\ sink' = SinkWriteHeader(sink, 204)
  /\ pret' = "nil"
  /\ ppc' = "return"
  /\ UNCHANGED <<svcVars, errorHandle, tplVars, method, cbRes, execLog>>

\* What an execution can do: a template whose Parse succeeded writes its output
\* and ends, or fails before or after it wrote; any other template fails
\* without output.
ExecOutcomes(tpl) ==
  IF tpl # NilTpl /\ tplMeta[tpl].state = "ok"
  THEN {[wrote |-> TRUE, err |-> FALSE], [wrote |-> TRUE, err |-> TRUE],
        [wrote |-> FALSE, err |-> TRUE]}
  ELSE {[wrote |-> FALSE, err |-> TRUE]}

\* TemplatePage, lines 396-401: ct.template.Execute(hd.W, fc) with the data of
\* the callback; its error, if any, is returned.
PageExecute ==
  /\ spc = "handler" /\ ppc = "method"
  /\ ~IsHead(method)
  /\ LET tpl == cachedTemplate[TemplateFile].template IN
     /\ execLog' = Append(execLog, [tpl |-> tpl, data |-> cbRes.data])
     /\ \E o \in ExecOutcomes(tpl) :
          /\ sink' = IF o.wrote THEN SinkWrite(sink, <<"page", cbRes.data>>)
                     ELSE sink
          /\ pret' = IF o.err THEN "exec" ELSE "nil"
  /\ ppc' = "return"
  /\ UNCHANGED <<svcVars, errorHandle, tplVars, method, cbRes>>

\* The handler returns to the wrapper (Service, line 303).
PageReturn ==
  /\ ppc = "return"
  /\ HandlerReturn(IF pret = "nil" THEN "nil" ELSE "err")
  /\ ppc' = "end"
  /\ UNCHANGED <<tplVars, method, cbRes, pret, execLog>>

\* ---------------------------------- StaticPage, WrapErrorHandler, FileServer
\* Strings are sequences of pieces. The keys a request can name under the
\* route, the byte strings, and the inputs of Brick.StaticPage.
Keys == {<<"x">>, <<"y", ".css">>, <<"z">>}
BaseURLs == {<<"/", "a">>, <<"/", "a", "/">>}
NoMapping == [has |-> FALSE, tab |-> <<>>]
Mappings ==
  { NoMapping,
    [has |-> TRUE, tab |-> <<>>],
    [has |-> TRUE, tab |-> (<<"x">> :> <<"g1", "g2">>)],
    [has |-> TRUE, tab |-> (<<"x">> :> <<"g1">>) @@ (<<"y", ".css">> :> <<"g3">>)] }
FileSets == { {}, {<<"z">>}, {<<"x">>, <<"z">>} }

\* A call a wrapped handler makes on its ResponseWriter.
WH(code) == [op |-> "WH", code |-> code, b |-> <<>>]
WR(b) == [op |-> "W", code |-> 0, b |-> b]
Ops == {WH(200), WH(404), WH(500), WR(<<"a">>), WR(<<"b">>)}

VARIABLES
  stpc,       \* idle, wrapped (inside WrapErrorHandler.ServeHTTP), done
  stRoute,    \* the StaticPage: [BaseUrl, mapping]
  stFiles,    \* the keys that name a file under the local directory
  reqKey,     \* the key the request names under the route
  viaStatic,  \* the request came through StaticPage.ServeHTTP
  fsCalled,   \* p.localFS.ServeHTTP was invoked
  wrap,       \* the WrapErrorResponse: [haserr, errmsg]
  todo,       \* the calls the wrapped handler has yet to make
  hops,       \* the calls the wrapped handler has made
  fwd,        \* the sink as the wrapped handler left it (before the error handler)
  stEh        \* the HttpErrors the error handler was called with: [code, msg]

stVars == <<stpc, stRoute, stFiles, reqKey, viaStatic, fsCalled, wrap, todo,
            hops, fwd, stEh>>

NewWrap == [haserr |-> 0, errmsg |-> <<>>]

\* strings.HasSuffix(baseURL, "/")
HasSuffixSlash(u) == Len(u) > 0 /\ u[Len(u)] = "/"

\* Brick.StaticPage, lines 429-431
NormBase(u) == IF HasSuffixSlash(u) THEN u ELSE Append(u, "/")

\* Brick.StaticPage: the route as registered; NewBrick always sets errorHandle,
\* so the file server is always wrapped by WrapErrorHandler.
StaticPage(baseURL, res) == [BaseUrl |-> NormBase(baseURL), mapping |-> res]

\* r.URL.Path[len(p.BaseUrl):] without the strip: the whole path is the key.
FileName_WholePath(path, base) == path

\* r.URL.Path[len(p.BaseUrl):]
FileName(path, base) == SubSeq(path, Len(base) + 1, Len(path))

\* getMimeType: by the extension, application/octet-stream when unknown.
getMimeType(fileName) ==
  IF Len(fileName) > 0 /\ fileName[Len(fileName)] = ".css"
  THEN "text/css; charset=utf-8" ELSE "application/octet-stream"

\* http.StripPrefix(baseURL, http.FileServer(http.Dir(fileDir))): a file is
\* served with 200 and its content, a missing one with http.Error(404).
FileServer(path, base) ==
  IF FileName(path, base) \in stFiles
  THEN <<WH(200), WR(<<"file">>)>>
  ELSE <<WH(404), WR(<<"404 page not found">>)>>

\* A WrapErrorResponse.WriteHeader that forwards every code.
WrapWriteHeader_Forwards(st, code) == [st EXCEPT !.sink = SinkWriteHeader(@, code)]

\* WrapErrorResponse.WriteHeader on st = [wrap, sink]
WrapWriteHeader(st, code) ==
  IF code >= 400 THEN [st EXCEPT !.wrap.haserr = code]
  ELSE [st EXCEPT !.sink = SinkWriteHeader(@, code)]

\* WrapErrorResponse.Write on st = [wrap, sink]
WrapWrite(st, b) ==
  IF st.wrap.haserr # 0 THEN [st EXCEPT !.wrap.errmsg = @ \o b]
  ELSE [st EXCEPT !.sink = SinkWrite(@, b)]

StInit ==
  /\ stpc = "idle"
  /\ \E u \in BaseURLs, res \in Mappings : stRoute = StaticPage(u, res)
  /\ stFiles \in FileSets
  /\ reqKey = <<>> /\ viaStatic = FALSE /\ fsCalled = FALSE
  /\ wrap = NewWrap /\ todo = <<>> /\ hops = <<>> /\ fwd = NewSink
  /\ stEh = <<>>

\* StaticPage.ServeHTTP for a request to BaseUrl + key.
ServeStatic(key) ==
  /\ stpc = "idle"
  /\ LET path == stRoute.BaseUrl \o key
         fileName == FileName(path, stRoute.BaseUrl)
         m == stRoute.mapping
     IN
     IF m.has /\ fileName \in DOMAIN m.tab
     THEN /\ sink' = SinkWrite(SinkWriteHeader(
                 HeaderSet(HeaderSet(HeaderAdd(NewSink,
                     "Cache-Control", "public, max-age"),
                     "Content-Type", getMimeType(fileName)),
                     "Content-Encoding", "gzip"),
                 200), m.tab[fileName])
          /\ stpc' = "done"
          /\ fsCalled' = FALSE
          /\ todo' = <<>>
          /\ fwd' = NewSink
     ELSE /\ sink' = HeaderAdd(NewSink, "Cache-Control", "no-cache")
          /\ stpc' = "wrapped"
          /\ fsCalled' = TRUE
          /\ todo' = FileServer(path, stRoute.BaseUrl)
          /\ fwd' = NewSink
  /\ reqKey' = key
  /\ viaStatic' = TRUE
  /\ wrap' = NewWrap /\ hops' = <<>> /\ stEh' = <<>>
  /\ UNCHANGED <<stRoute, stFiles, errorHandle>>

\* WrapErrorHandler.ServeHTTP around any other handler: the handler will make
\* these calls on the WrapErrorResponse.
ServeWrapped(script) ==
  /\ stpc = "idle"
  /\ sink' = NewSink
  /\ stpc' = "wrapped"
  /\ todo' = script
  /\ reqKey' = <<>> /\ viaStatic' = FALSE /\ fsCalled' = FALSE
  /\ wrap' = NewWrap /\ hops' = <<>> /\ stEh' = <<>> /\ fwd' = NewSink
  /\ UNCHANGED <<stRoute, stFiles, errorHandle>>

\* w.src.ServeHTTP(_resp, req): the wrapped handler's next call.
WrappedCall ==
  /\ stpc = "wrapped"
  /\ todo # <<>>
  /\ LET o == Head(todo)
         st == [wrap |-> wrap, sink |-> sink]
         st2 == IF o.op = "WH" THEN WrapWriteHeader(st, o.code)
                ELSE WrapWrite(st, o.b)
     IN /\ wrap' = st2.wrap
        /\ sink' = st2.sink
  /\ todo' = Tail(todo)
  /\ hops' = Append(hops, Head(todo))
  /\ UNCHANGED <<stpc, stRoute, stFiles, reqKey, viaStatic, fsCalled, fwd,
                 stEh, errorHandle>>

\* WrapErrorHandler.ServeHTTP, lines 463-467: the wrapped handler has returned.
WrappedDone ==
  /\ stpc = "wrapped"
  /\ todo = <<>>
  /\ fwd' = sink
  /\ IF wrap.haserr # 0
     THEN /\ stEh' = Append(stEh, [code |-> wrap.haserr, msg |-> wrap.errmsg])
          /\ sink' = CallErrorHandle(sink, wrap.haserr, wrap.errmsg)
     ELSE UNCHANGED <<stEh, sink>>
  /\ stpc' = "done"
  /\ UNCHANGED <<stRoute, stFiles, reqKey, viaStatic, fsCalled, wrap, todo,
                 hops, errorHandle>>

\* The request is over: its response writer and its wrapper are gone.
StEnd ==
  /\ stpc = "done"
  /\ stpc' = "idle"
  /\ reqKey' = <<>> /\ viaStatic' = FALSE /\ fsCalled' = FALSE
  /\ wrap' = NewWrap /\ todo' = <<>> /\ hops' = <<>> /\ fwd' = NewSink
  /\ stEh' = <<>>
  /\ sink' = NewSink
  /\ UNCHANGED <<stRoute, stFiles, errorHandle>>

\* The scripts a wrapped handler can follow: up to MaxOps calls.
Scripts == UNION {[1..n -> Ops] : n \in 0..MaxOps}

\* ------------------------------------------------------------ Http.URLParam
\* Strings are sequences of characters; a request path starts with "/".
Chars == {"/", "f", "x"}
UrlPaths ==
  {p \in UNION {[1..n -> Chars] : n \in 1..MaxPathLen} : p[1] = "/"}
FixBases == {<<"f">>, <<"f", "f">>, <<>>}
\* The value every out parameter holds before the call.
OldValue == <<"o">>
OutLists == UNION {[1..n -> {OldValue}] : n \in 0..MaxOuts}

VARIABLES
  upc,        \* idle, call (URLParam is about to run), done
  urlPath,    \* h.R.URL.Path
  fixBase,    \* the argument fixBase
  out,        \* the strings the out pointers point to
  ures        \* how the call ended: [kind, val]; kind is none, ret or panic

urlVars == <<upc, urlPath, fixBase, out, ures>>

\* strings.Split(s, "/"): the pieces between the separators, one more than
\* there are separators.
RECURSIVE Split(_)
Split(str) ==
  IF \A i \in 1..Len(str) : str[i] # "/" THEN <<str>>
  ELSE LET i == CHOOSE j \in 1..Len(str) :
                  str[j] = "/" /\ \A l \in 1..(j - 1) : str[l] # "/"
       IN <<SubSeq(str, 1, i - 1)>> \o Split(SubSeq(str, i + 1, Len(str)))

\* URLParam, lines 636-641: ui after the loop, counted from 0: one past the
\* first piece equal to fixBase, or ulen when there is none.
FindFix(arr, fix) ==
  IF \E i \in 1..Len(arr) : arr[i] = fix
  THEN CHOOSE i \in 1..Len(arr) :
         arr[i] = fix /\ \A l \in 1..(i - 1) : arr[l] # fix
  ELSE Len(arr)

\* URLParam, lines 648-652: the assignment loop from index ui (counted from 0).
RECURSIVE Bind(_, _, _, _)
Bind(arr, outs, oi, ui) ==
  IF oi < Len(outs) /\ ui < Len(arr)
  THEN Bind(arr, [outs EXCEPT ![oi + 1] = arr[ui + 1]], oi + 1, ui + 1)
  ELSE outs

\* Http.URLParam: the outs as the call leaves them and how it ends.
URLParam(path, fix, outs) ==
  LET arr == Split(path)
      ulen == Len(arr)
      olen == Len(outs)
      ui == FindFix(arr, fix)
      ucount == ulen - ui
  IN
  IF olen <= 0
  THEN [out |-> outs, res |-> [kind |-> "panic", val |-> "ErrBindOutParam"]]
  ELSE IF ucount = 0
  THEN [out |-> outs, res |-> [kind |-> "panic", val |-> "ErrBindNotFix"]]
  ELSE [out |-> Bind(arr, outs, 0, ui),
        res |-> [kind |-> "ret", val |-> ucount - olen]]

NoURes == [kind |-> "none", val |-> 0]

UrlRest ==
  /\ upc = "idle" /\ urlPath = <<"/">> /\ fixBase = <<>> /\ out = <<>>
  /\ ures = NoURes

\* A handler is about to call hd.URLParam(fixBase, &out1, ...).
UrlInit ==
  /\ upc = "call"
  /\ urlPath \in UrlPaths
  /\ fixBase \in FixBases
  /\ out \in OutLists
  /\ ures = NoURes

CallURLParam ==
  /\ upc = "call"
  /\ out' = URLParam(urlPath, fixBase, out).out
  /\ ures' = URLParam(urlPath, fixBase, out).res
  /\ upc' = "done"
  /\ UNCHANGED <<urlPath, fixBase>>

\* --------------------------------------------------------- specifications
vars == <<tplVars, incDepth, svcVars, pageVars, stVars, urlVars, sink,
          errorHandle>>

\* The parts a specification leaves alone.
TplRest ==
  /\ fileIno = [p \in Paths |-> 1]
  /\ inodes = <<[mtime |-> 1, ver |-> 1, good |-> TRUE]>>
  /\ writes = 0
  /\ cachedTemplate = [p \in Paths |-> NilEntry]
  /\ tplLock = NoTask
  /\ tplMeta = <<>>
  /\ task = [t \in Tasks |-> IdleTask]
  /\ lastOk = [p \in Paths |-> NoRet]
  /\ lastDone = [p \in Paths |-> NoDone]
  /\ incDepth = [t \in Tasks |-> 0]

StRest ==
  /\ stpc = "idle"
  /\ stRoute = StaticPage(<<"/", "a">>, NoMapping)
  /\ stFiles = {}
  /\ reqKey = <<>> /\ viaStatic = FALSE /\ fsCalled = FALSE
  /\ wrap = NewWrap /\ todo = <<>> /\ hops = <<>> /\ fwd = NewSink
  /\ stEh = <<>>

\* NewBrick: eh := conf.ErrorHandle; if eh == nil { eh = defaultErrorHandle }
NewBrick == errorHandle \in {"default", "custom"} /\ sink = NewSink

\* The variables the template cache leaves alone, and so on.
notTpl == <<incDepth, svcVars, pageVars, stVars, urlVars, sink, errorHandle>>
notInc == <<svcVars, pageVars, stVars, urlVars, sink, errorHandle>>
notSvc == <<tplVars, incDepth, pageVars, stVars, urlVars>>
notSt == <<tplVars, incDepth, svcVars, pageVars, urlVars>>
notUrl == <<tplVars, incDepth, svcVars, pageVars, stVars, sink, errorHandle>>
notPage == <<incDepth, stVars, urlVars>>

TplSpecInit ==
  /\ TplInit /\ SvcInit /\ StRest /\ UrlRest /\ PageRest
  /\ errorHandle = "default" /\ sink = NewSink

TplNext ==
  \/ (\E p \in Paths, m \in 1..MaxTime, g \in BOOLEAN : WriteInPlace(p, m, g))
       /\ UNCHANGED notTpl
  \/ (\E p \in Paths, m \in 1..MaxTime, g \in BOOLEAN : ReplaceFile(p, m, g))
       /\ UNCHANGED notTpl
  \/ (\E t \in Tasks, p \in Paths : OpenStat(t, p)) /\ UNCHANGED notTpl
  \/ (\E t \in Tasks : Lock(t)) /\ UNCHANGED notTpl
  \/ (\E t \in Tasks : Check(t)) /\ UNCHANGED notTpl
  \/ (\E t \in Tasks : Parse(t)) /\ UNCHANGED notTpl
  \/ (\E t \in Tasks : ReadLastTime(t)) /\ UNCHANGED notTpl
  \/ (\E t \in Tasks : ReadTemplate(t)) /\ UNCHANGED notTpl
  \/ (\E t \in Tasks : EndRequest(t)) /\ UNCHANGED notTpl

SpecTpl == TplSpecInit /\ [][TplNext]_vars

\* Template pages rendered concurrently: GetCachedTemplate, then the execution
\* of the template with its include directives, while the file is modified.
IncNext ==
  \/ (\E p \in Paths, m \in 1..MaxTime, g \in BOOLEAN : WriteInPlace(p, m, g))
       /\ UNCHANGED notTpl
  \/ (\E t \in Tasks, p \in Paths : OpenStat(t, p)) /\ UNCHANGED notTpl
  \/ (\E t \in Tasks : Lock(t)) /\ UNCHANGED notTpl
  \/ (\E t \in Tasks : Check(t)) /\ UNCHANGED notTpl
  \/ (\E t \in Tasks : Parse(t)) /\ UNCHANGED notTpl
  \/ (\E t \in Tasks : Execute(t)) /\ UNCHANGED notInc
  \/ (\E t \in Tasks, p \in Paths : Include(t, p)) /\ UNCHANGED notInc
  \/ (\E t \in Tasks : ExecuteReturn(t)) /\ UNCHANGED notInc
  \/ (\E t \in Tasks : IncludeFailed(t)) /\ UNCHANGED notInc
  \/ (\E t \in Tasks : EndRendering(t)) /\ UNCHANGED notInc

SpecInclude == TplSpecInit /\ [][IncNext]_vars

SvcSpecInit ==
  /\ TplRest /\ SvcInit /\ StRest /\ UrlRest /\ PageRest /\ NewBrick

SvcNext ==
  \/ SvcBegin /\ UNCHANGED notSvc
  \/ (\E c \in Closers : CloseOnEnd(c)) /\ UNCHANGED notSvc
  \/ HandlerWrite /\ UNCHANGED notSvc
  \/ (\E e \in {"nil", "err"} : HandlerReturn(e)) /\ UNCHANGED notSvc
  \/ (\E v \in HPanics : HandlerPanic(v)) /\ UNCHANGED notSvc
  \/ ErrorReturned /\ UNCHANGED notSvc
  \/ ShutdownStep /\ UNCHANGED notSvc
  \/ DeferredRecover /\ UNCHANGED notSvc
  \/ SvcEnd /\ UNCHANGED notSvc

SpecSvc == SvcSpecInit /\ [][SvcNext]_vars

StSpecInit ==
  /\ TplRest /\ SvcInit /\ StInit /\ UrlRest /\ PageRest /\ NewBrick

StNext ==
  \/ (\E k \in Keys : ServeStatic(k)) /\ UNCHANGED notSt
  \/ (\E sc \in Scripts : ServeWrapped(sc)) /\ UNCHANGED notSt
  \/ WrappedCall /\ UNCHANGED notSt
  \/ WrappedDone /\ UNCHANGED notSt
  \/ StEnd /\ UNCHANGED notSt

SpecStatic == StSpecInit /\ [][StNext]_vars

\* Requests to a TemplatePage route, one after the other, while the template
\* file is modified.
PageSpecInit ==
  /\ TplInit /\ SvcInit /\ StRest /\ UrlRest /\ PageRest /\ NewBrick

PageNext ==
  \/ (\E p \in Paths, m \in 1..MaxTime, g \in BOOLEAN : WriteInPlace(p, m, g))
       /\ UNCHANGED notTpl
  \/ (\E p \in Paths, m \in 1..MaxTime, g \in BOOLEAN : ReplaceFile(p, m, g))
       /\ UNCHANGED notTpl
  \/ (\E m \in Methods : PageBegin(m)) /\ UNCHANGED notPage
  \/ PageHeaders /\ UNCHANGED notPage
  \/ PageGetTemplate /\ UNCHANGED notPage
  \/ Lock(PageTask) /\ UNCHANGED notTpl
  \/ Check(PageTask) /\ UNCHANGED notTpl
  \/ Parse(PageTask) /\ UNCHANGED notTpl
  \/ PageTemplateError /\ UNCHANGED notPage
  \/ (\E k \in {"ok", "err"}, d \in Datas : PageHandle(k, d))
       /\ UNCHANGED notPage
  \/ (\E v \in HPanics : PageHandlePanics(v)) /\ UNCHANGED notPage
  \/ PageHead /\ UNCHANGED notPage
  \/ PageExecute /\ UNCHANGED notPage
  \/ PageReturn /\ UNCHANGED notPage
  \/ ErrorReturned /\ UNCHANGED notSvc
  \/ ShutdownStep /\ UNCHANGED notSvc
  \/ DeferredRecover /\ UNCHANGED notSvc
  \/ SvcEnd /\ UNCHANGED notSvc

SpecPage == PageSpecInit /\ [][PageNext]_vars

UrlSpecInit ==
  /\ TplRest /\ SvcInit /\ StRest /\ UrlInit /\ PageRest
  /\ errorHandle = "default" /\ sink = NewSink

UrlNext == CallURLParam /\ UNCHANGED notUrl

SpecUrl == UrlSpecInit /\ [][UrlNext]_vars

\* ------------------------------------------------ template cache: properties
Returned(t) == task[t].pc \in {"ret", "rdtpl", "done"}

\* The step in which task t returns from GetCachedTemplate, with or without
\* an error; and the entry it returns.
Returns(t) == InCall(t) /\ task'[t].pc \in {"ret", "done"}

ReturnsOk(t) == InCall(t) /\ task'[t].pc = "ret"

Attempts(t) == task'[t].res.attempted

Entry(t) == cachedTemplate'[task[t].path]

\* C1: while the file's modification time has not changed since the last
\* successful GetCachedTemplate call for the path, every further call (one that
\* starts after that call returned) returns the handle that call returned and
\* does not compile.
C1_SameHandleWhileUnchanged ==
  [][\A t \in Tasks :
       (Returns(t) /\ UnchangedSinceOk(t))
         => /\ ReturnsOk(t)
            /\ ~Attempts(t)
            /\ Entry(t).template = lastOk[task[t].path].tpl]_vars

C3_ReaderSeesOneCompilation ==
  \A t \in Tasks :
    (task[t].pc = "done" /\ task[t].res.status = "ok")
      => /\ task[t].obsTpl # NilTpl
         /\ tplMeta[task[t].obsTpl].state = "ok"
         /\ tplMeta[task[t].obsTpl].time = task[t].obsTime

\* C10 as stated: after a call failed to parse the file, a later call that finds
\* the file's modification time unchanged does not attempt a compilation.
C10_NoRetryWhileUnchanged ==
  [][\A t \in Tasks :
       (Returns(t) /\ UnchangedSinceParseError(t)) => ~Attempts(t)]_vars

\* C10 amended: after a call failed to parse the file, the next call to pass the
\* lock, finding the file's modification time unchanged, attempts the
\* compilation again (the failed call stored no time).
C10_RetryWhileUnchanged ==
  [][\A t \in Tasks :
       (Returns(t) /\ UnchangedSinceParseError(t)) => Attempts(t)]_vars

C10_Witness ==
  \E t \in Tasks :
    /\ Returned(t) /\ task[t].res.c10pre /\ task[t].res.attempted
    /\ task[t].res.status = "parse"

\* C16: whenever GetCachedTemplate returns without an error, the entry it
\* returns holds a template that is not nil, whose compilation succeeded, and
\* that was compiled for the time the entry stores.
C16_SuccessReturnsCompiled ==
  [][\A t \in Tasks :
       ReturnsOk(t)
         => /\ Entry(t).template # NilTpl
            /\ tplMeta'[Entry(t).template].state = "ok"
            /\ tplMeta'[Entry(t).template].time = Entry(t).lastTime]_vars

\* The modification time of the file has only increased so far: it was not
\* modified, or modified once, to a time later than its first.
TimesOnlyIncreased(p) ==
  \/ writes = 0
  \/ writes = 1 /\ inodes[fileIno[p]].mtime > 1

\* C17: while the file's modification time only increases, no step moves the
\* time stored in the cache entry backwards.
C17_StoredTimeNeverBackwards ==
  [][\A p \in Paths :
       TimesOnlyIncreased(p)
         => cachedTemplate'[p].lastTime >= cachedTemplate[p].lastTime]_vars

\* C11: the template lock is held only by a task inside the staleness check or
\* the compilation of GetCachedTemplate, never by a task that executes a
\* template or waits in a nested call; and whenever a call waits for the lock,
\* a nested call of include too, it can take the lock or the task that holds
\* it can take its next step towards releasing it (no deadlock).
C11_LockFreeWhileExecuting ==
  \A t \in Tasks :
    /\ tplLock = t => task[t].pc \in {"check", "parse"}
    /\ task[t].pc = "lock" =>
         \/ ENABLED Lock(t)
         \/ \E u \in Tasks \ {t} :
              tplLock = u /\ ENABLED (Check(u) \/ Parse(u))

\* A nested call of include, at the deepest level, holds the lock while the
\* other task, itself inside an include, waits for it.
C11_Witness ==
  \E t, u \in Tasks :
    /\ t # u
    /\ incDepth[t] = MaxDepth /\ tplLock = t /\ task[t].pc = "check"
    /\ incDepth[u] > 0 /\ task[u].pc = "lock"

\* ------------------------------------------------ Service wrapper: properties
\* C5: when the handler of a request panics, the error handler is called
\* exactly once, with that panic, and the handler's panic does not leave the
\* wrapper.
C5_PanicRecoveredOnce ==
  (spc = "done" /\ hres \in HPanics)
    => /\ ehLog = <<hres>>
       /\ escaped \notin HPanics

\* A request whose handler panicked in a parameter accessor has been handled,
\* after an earlier request whose handler panicked too.
C5_Witness ==
  /\ spc = "done" /\ hres = "param" /\ ehLog = <<"param">>
  /\ prevPanic /\ reqs = MaxReqs

\* C6: when the handler returned (nil or an error), every Shutdown registered
\* during the request has had Close called exactly once, in registration
\* order, and no Close is called before the handler has returned.
C6_AllClosedInOrder ==
  /\ (spc = "done" /\ hres \in {"nil", "err"}) => closed = hc
  /\ closed # <<>> => hres \in {"nil", "err"}

\* C12: when the processing of a request ends, however the handler ended
\* (nil, an error, a panic), Close has been called on every Shutdown that was
\* registered during the request.
C12_EveryShutdownCalled ==
  spc = "done" =>
    \A i \in 1..Len(hc) : \E j \in 1..Len(closed) : closed[j] = hc[i]

\* C9: the error handler is called at most once in a request.
C9_ErrorHandlerAtMostOnce == Len(ehLog) <= 1

\* -------------------------------------------------- static route: properties
\* C4: a request whose key is in the mapping is answered with 200, the stored
\* bytes and Content-Encoding gzip, and the filesystem handler is not invoked;
\* any other request goes to the filesystem handler with Cache-Control no-cache.
C4_MappingOrFilesystem ==
  (viaStatic /\ stpc \in {"wrapped", "done"}) =>
    LET m == stRoute.mapping IN
    IF m.has /\ reqKey \in DOMAIN m.tab
    THEN /\ stpc = "done"
         /\ ~fsCalled /\ hops = <<>> /\ todo = <<>>
         /\ sink.status = 200
         /\ sink.body = m.tab[reqKey]
         /\ <<"Content-Encoding", "gzip">> \in sink.hdr
    ELSE /\ fsCalled
         /\ <<"Cache-Control", "no-cache">> \in sink.hdr

C4_Witness ==
  /\ viaStatic /\ stpc = "done" /\ ~fsCalled
  /\ reqKey = <<"y", ".css">> /\ sink.body = <<"g3">> /\ sink.status = 200

\* The calls of a wrapped handler that announce an error, and the bytes a
\* sequence of calls writes.
ErrIdx(ops) == {i \in 1..Len(ops) : ops[i].op = "WH" /\ ops[i].code >= 400}

FirstErr(ops) == CHOOSE i \in ErrIdx(ops) : \A j \in ErrIdx(ops) : i <= j

LastErr(ops) == CHOOSE i \in ErrIdx(ops) : \A j \in ErrIdx(ops) : j <= i

RECURSIVE Bytes(_)
Bytes(ops) ==
  IF ops = <<>> THEN <<>>
  ELSE (IF Head(ops).op = "W" THEN Head(ops).b ELSE <<>>) \o Bytes(Tail(ops))

\* C7: when the wrapped handler announced a status >= 400, none of the bytes
\* it wrote afterwards and no status >= 400 reached the sink, and the error
\* handler was called exactly once, with the status intercepted (the last one
\* announced) and the concatenation of those bytes; when it announced none,
\* the error handler was not called and everything reached the sink.
C7_ErrorIntercepted ==
  (stpc = "done" /\ (fsCalled \/ ~viaStatic)) =>
    IF ErrIdx(hops) # {}
    THEN /\ Len(stEh) = 1
         /\ stEh[1].code = hops[LastErr(hops)].code
         /\ stEh[1].msg = Bytes(SubSeq(hops, FirstErr(hops) + 1, Len(hops)))
         /\ fwd.status < 400
         /\ fwd.body = Bytes(SubSeq(hops, 1, FirstErr(hops) - 1))
    ELSE /\ stEh = <<>>
         /\ fwd.body = Bytes(hops)
         /\ sink = fwd

C7_Witness ==
  /\ stpc = "done" /\ ~viaStatic
  /\ hops = <<WH(404), WR(<<"a">>), WR(<<"b">>)>>
  /\ stEh = <<[code |-> 404, msg |-> <<"a", "b">>]>>
  /\ fwd.status = 0 /\ fwd.body = <<>>

\* C8: a request to the static route whose key is not in the mapping and names
\* no file is answered with status 404.
C8_MissingFileIs404 ==
  (stpc = "done" /\ viaStatic /\ fsCalled /\ reqKey \notin stFiles)
    => sink.status = 404

\* ------------------------------------------------- TemplatePage: properties
\* C13: with the default error handler, a request whose handler returned an
\* error or panicked is answered with status 500; the handler here is the one
\* TemplatePage builds.
C13_ErrorAnsweredWith500 ==
  (spc = "done" /\ errorHandle = "default" /\ hres \in {"err"} \cup HPanics)
    => sink.status = 500

\* C14: when the TemplatePage handler has ended: if the data callback returned
\* an error the template was not executed and the handler returned that error,
\* which the error handler received; if the callback returned data and the
\* request is a HEAD request the status is 204, the template was not executed
\* and no body was written; if it returned data and the request is not a HEAD
\* request the template of the cache entry was executed exactly once, with
\* the callback's data.
C14_TemplatePageBranches ==
  (spc = "done" /\ cbRes.kind \in {"ok", "err"}) =>
    IF cbRes.kind = "err"
    THEN /\ execLog = <<>>
         /\ pret = "cb"
         /\ Len(ehLog) >= 1 /\ ehLog[1] = "err"
    ELSE IF method = "HEAD"
    THEN /\ pret = "nil"
         /\ sink.status = 204
         /\ execLog = <<>>
         /\ sink.body = <<>>
    ELSE /\ Len(execLog) = 1
         /\ execLog[1].data = cbRes.data
         /\ execLog[1].tpl = cachedTemplate[TemplateFile].template
         /\ execLog[1].tpl # NilTpl

\* A HEAD request has been answered with 204 by a handler whose template was
\* recompiled after the file had changed.
C14_Witness ==
  /\ spc = "done" /\ method = "HEAD" /\ cbRes.kind = "ok"
  /\ sink.status = 204 /\ sink.body = <<>> /\ execLog = <<>>
  /\ writes >= 1 /\ reqs = MaxReqs
  /\ cachedTemplate[TemplateFile].template = 2

\* ----------------------------------------------------- URLParam: properties
\* The pieces of the path, whether one of them equals fixBase, and the pieces
\* after the first one that does.
Segments == Split(urlPath)

HasFix == \E i \in 1..Len(Segments) : Segments[i] = fixBase

AfterFix ==
  LET i == CHOOSE j \in 1..Len(Segments) :
             Segments[j] = fixBase /\ \A l \in 1..(j - 1) : Segments[l] # fixBase
  IN SubSeq(Segments, i + 1, Len(Segments))

\* C15: with at least one out, a call on a path that has a segment equal to
\* fixBase returns k - n (k segments after the first such segment, n outs),
\* has assigned the first min(k, n) of those segments to the outs in order and
\* left the other outs unchanged; a call on a path without such a segment
\* panics with ErrBindNotFix.
C15_URLParamCountsSegments ==
  (upc = "done" /\ Len(out) >= 1) =>
    IF HasFix
    THEN /\ ures = [kind |-> "ret", val |-> Len(AfterFix) - Len(out)]
         /\ \A j \in 1..Len(out) :
              out[j] = IF j <= Len(AfterFix) THEN AfterFix[j] ELSE OldValue
    ELSE ures = [kind |-> "panic", val |-> "ErrBindNotFix"]

====
